---- MODULE Spec2Model ----
(***************************************************************************)
(* State-machine model of the VibeVoice RunPod serverless handler          *)
(* (src/handler.optimized.py): the job entry point `handler`, the input    *)
(* validators, the lazy worker initialisation `initialize_model`, the      *)
(* generation step `generate_audio` with its child process and its         *)
(* artifact discovery on the shared file system, and `health_check`.       *)
(*                                                                         *)
(* Several jobs may be in flight at once (spec section 5); a job's steps   *)
(* are split where the code touches state shared with other jobs: the      *)
(* module globals and the file system.                                     *)
(***************************************************************************)
EXTENDS Integers, Sequences, FiniteSets, TLC

(***************************************************************************)
(* Bounds of the model.                                                    *)
(***************************************************************************)
NumJobs == 2

Jobs == 1..NumJobs

(***************************************************************************)
(* Python values.  A string is kept run-length encoded, a sequence of      *)
(* runs [c, n] (character c repeated n >= 1 times), so that a text of      *)
(* 10,001 characters is a value the model can hold.                        *)
(***************************************************************************)
R(c, n) == [c |-> c, n |-> n]

PyNone == [t |-> "none"]
PyInt(v) == [t |-> "int", v |-> v]
PyStr(runs) == [t |-> "str", runs |-> runs]
PyList(items) == [t |-> "list", items |-> items]
PyDict(d) == [t |-> "dict", d |-> d]

RECURSIVE RunsLen(_)
RunsLen(runs) ==
    IF runs = <<>> THEN 0 ELSE Head(runs).n + RunsLen(Tail(runs))

\* len(v) of a str, list or dict
PyLen(v) ==
    CASE v.t = "str" -> RunsLen(v.runs)
      [] v.t = "list" -> Len(v.items)
      [] v.t = "dict" -> Cardinality(DOMAIN v.d)

\* bool(v): None, 0 and empty containers are falsy
Truthy(v) ==
    CASE v.t = "none" -> FALSE
      [] v.t = "int" -> v.v # 0
      [] OTHER -> PyLen(v) > 0

IsWhite(c) == c \in {" ", "\t", "\n"}

RECURSIVE LStripRuns(_)
LStripRuns(runs) ==
    IF runs = <<>> THEN <<>>
    ELSE IF IsWhite(Head(runs).c) THEN LStripRuns(Tail(runs))
    ELSE runs

RECURSIVE RStripRuns(_)
RStripRuns(runs) ==
    IF runs = <<>> THEN <<>>
    ELSE IF IsWhite(runs[Len(runs)].c) THEN RStripRuns(SubSeq(runs, 1, Len(runs) - 1))
    ELSE runs

\* str.strip()
Strip(s) == PyStr(RStripRuns(LStripRuns(s.runs)))

LowerChar(c) ==
    CASE c = "W" -> "w" [] c = "A" -> "a" [] c = "V" -> "v"
      [] c = "M" -> "m" [] c = "P" -> "p" [] c = "F" -> "f"
      [] c = "L" -> "l" [] c = "C" -> "c" [] c = "O" -> "o"
      [] c = "G" -> "g" [] c = "B" -> "b" [] c = "E" -> "e"
      [] OTHER -> c

\* merge adjacent runs of the same character (the canonical encoding)
RECURSIVE Canon(_)
Canon(runs) ==
    IF Len(runs) < 2 THEN runs
    ELSE IF runs[1].c = runs[2].c
         THEN Canon(<<R(runs[1].c, runs[1].n + runs[2].n)>> \o SubSeq(runs, 3, Len(runs)))
         ELSE <<runs[1]>> \o Canon(Tail(runs))

\* str.lower()
Lower(s) == PyStr(Canon([i \in 1..Len(s.runs) |-> R(LowerChar(s.runs[i].c), s.runs[i].n)]))

\* the characters of a (short) string, one per element
RECURSIVE Chars(_)
Chars(runs) ==
    IF runs = <<>> THEN <<>>
    ELSE IF Head(runs).n = 1 THEN <<Head(runs).c>> \o Chars(Tail(runs))
    ELSE <<Head(runs).c>> \o Chars(<<R(Head(runs).c, Head(runs).n - 1)>> \o Tail(runs))

\* a string literal, given character by character
Lit(chars) == PyStr(Canon([i \in 1..Len(chars) |-> R(chars[i], 1)]))

\* needle in haystack, for two strings
SubStr(needle, hay) ==
    LET n == Chars(needle.runs)
        h == Chars(hay.runs)
    IN \E i \in 0..(Len(h) - Len(n)) : SubSeq(h, i + 1, i + Len(n)) = n

RECURSIVE TakeRuns(_, _)
TakeRuns(runs, n) ==
    IF runs = <<>> \/ n <= 0 THEN <<>>
    ELSE IF Head(runs).n <= n
    THEN <<Head(runs)>> \o TakeRuns(Tail(runs), n - Head(runs).n)
    ELSE <<R(Head(runs).c, n)>>

\* s[:n]
Slice(s, n) == PyStr(TakeRuns(s.runs, n))

DigitChars == <<"0", "1", "2", "3", "4", "5", "6", "7", "8", "9">>

\* str(v) for the values a JSON payload can carry in a speaker list
ToStr(v) ==
    CASE v.t = "str" -> v
      [] v.t = "int" -> Lit(<<DigitChars[v.v + 1]>>)
      [] v.t = "none" -> Lit(<<"N", "o", "n", "e">>)
      [] v.t = "list" /\ v.items = <<>> -> Lit(<<"[", "]">>)
      [] v.t = "dict" /\ DOMAIN v.d = {} -> Lit(<<"{", "}">>)

TEXT == Lit(<<"t", "e", "x", "t">>)
WAV == Lit(<<"w", "a", "v">>)
MP3 == Lit(<<"m", "p", "3">>)
FLAC == Lit(<<"f", "l", "a", "c">>)
ALICE == Lit(<<"A", "l", "i", "c", "e">>)
BOB == Lit(<<"B", "o", "b">>)

DefaultSpeakers == PyList(<<ALICE, BOB>>)

(***************************************************************************)
(* Outcome of a Python expression: a value, or a raised exception.         *)
(***************************************************************************)
Ok(v) == [ok |-> TRUE, val |-> v, exc |-> "", msg |-> ""]
Raise(exc, msg) == [ok |-> FALSE, val |-> PyNone, exc |-> exc, msg |-> msg]

\* "text" in v: a key of a dict, a substring of a string, an item of a list;
\* None and an int are not iterable
TextIn(v) ==
    CASE v.t = "dict" -> Ok("text" \in DOMAIN v.d)
      [] v.t = "str" -> Ok(SubStr(TEXT, v))
      [] v.t = "list" -> Ok(\E i \in 1..Len(v.items) :
                              v.items[i].t = "str" /\ v.items[i] = TEXT)
      [] OTHER -> Raise("TypeError", "argument is not iterable")

\* v.get(key, default); only a dict has .get
PyGet(v, key, default) ==
    IF v.t = "dict"
    THEN Ok(IF key \in DOMAIN v.d THEN v.d[key] ELSE default)
    ELSE Raise("AttributeError", "object has no attribute 'get'")

(***************************************************************************)
(* InputValidator                                                          *)
(***************************************************************************)
MaxTextLen == 10000
MaxSpeakers == 4
MinSpeakers == 2

validate_text(text) ==
    IF ~Truthy(text) \/ text.t # "str"
    THEN Raise("ValueError", "Text must be a non-empty string")
    ELSE IF PyLen(text) > MaxTextLen
    THEN Raise("ValueError", "Text too long (max 10,000 characters)")
    ELSE Ok(Strip(text))

\* validate_speaker_names without the limit of line 54
validate_speaker_names_untruncated(speaker_names) ==
    LET s1 == IF speaker_names.t # "list" THEN DefaultSpeakers ELSE speaker_names
        s3 == IF Len(s1.items) < MinSpeakers THEN DefaultSpeakers ELSE s1
    IN PyList(SelectSeq([i \in 1..Len(s3.items) |-> Strip(ToStr(s3.items[i]))],
                        LAMBDA n : Truthy(n)))

validate_speaker_names(speaker_names) ==
    LET s1 == IF speaker_names.t # "list" THEN DefaultSpeakers ELSE speaker_names
        s2 == PyList(SubSeq(s1.items, 1, IF Len(s1.items) < MaxSpeakers
                                         THEN Len(s1.items) ELSE MaxSpeakers))
        s3 == IF Len(s2.items) < MinSpeakers THEN DefaultSpeakers ELSE s2
    IN PyList(SelectSeq([i \in 1..Len(s3.items) |-> Strip(ToStr(s3.items[i]))],
                        LAMBDA n : Truthy(n)))

allowed_formats == <<WAV, MP3, FLAC>>

validate_output_format(format_type) ==
    IF ~Truthy(format_type) THEN Ok(WAV)
    ELSE IF format_type.t # "str"
    THEN Raise("AttributeError", "object has no attribute 'lower'")
    ELSE IF \E i \in 1..Len(allowed_formats) : allowed_formats[i] = Lower(format_type)
    THEN Ok(Lower(format_type))
    ELSE Ok(WAV)

(***************************************************************************)
(* Results returned to the caller.                                         *)
(***************************************************************************)
NoFile == [owner |-> 0, ext |-> PyNone, loc |-> "none", mtime |-> 0 - 1]
NoResult == [kind |-> "none"]
NoReport == [status |-> "none", model_loaded |-> "absent", device |-> "absent",
             gpu_info |-> FALSE]

\* An error result: error is the fixed part of the message, detail the text of
\* the exception put after it (str(e)), tail the piece of the child's stderr put
\* after it; stdout and stderr are the keys of these names, None when the
\* result has no such key.

\* {"error": prefix + detail}
Failure(prefix, detail) ==
    [kind |-> "error", error |-> prefix, detail |-> detail, tail |-> PyNone,
     example |-> FALSE, stdout |-> PyNone, stderr |-> PyNone]

\* {"error": ..., "example": {...}}
Usage(error) ==
    [kind |-> "error", error |-> error, detail |-> "", tail |-> PyNone,
     example |-> TRUE, stdout |-> PyNone, stderr |-> PyNone]

ExcerptLen == 500

\* lines 241-244: {"error": f"Generation failed: {result.stderr[:500]}",
\*                 "stdout": result.stdout[:500]}
ProcessFailure(stdout, stderr) ==
    [kind |-> "error", error |-> "Generation failed: ", detail |-> "",
     tail |-> Slice(stderr, ExcerptLen), example |-> FALSE,
     stdout |-> Slice(stdout, ExcerptLen), stderr |-> PyNone]

\* lines 234-238: {"error": "No audio file generated", "stdout": ..., "stderr": ...}
NoAudio(stdout, stderr) ==
    [kind |-> "error", error |-> "No audio file generated", detail |-> "",
     tail |-> PyNone, example |-> FALSE,
     stdout |-> Slice(stdout, ExcerptLen), stderr |-> Slice(stderr, ExcerptLen)]

\* {"success": True, "audio_base64": ..., "format": ..., "speakers": ..., "text_length": ...}
Success(audio, format, speakers, text_length) ==
    [kind |-> "success", audio |-> audio, format |-> format,
     speakers |-> speakers, text_length |-> text_length]

\* an exception that leaves handler: no result at all
Raised(exc) ==
    [kind |-> "raised", error |-> exc, detail |-> "", tail |-> PyNone,
     example |-> FALSE, stdout |-> PyNone, stderr |-> PyNone]

Return(r) ==
    [returns |-> TRUE, result |-> r, text |-> PyNone, speaker_names |-> PyNone,
     output_format |-> PyNone]
Proceed(text, speaker_names, output_format) ==
    [returns |-> FALSE, result |-> NoResult, text |-> text, speaker_names |-> speaker_names,
     output_format |-> output_format]

EmptyDict == PyDict([k \in {} |-> PyNone])

(***************************************************************************)
(* generate_audio up to the call of initialize_model: the three            *)
(* validations and the except clauses they can reach.                      *)
(***************************************************************************)
\* generate_audio taking mp3 for an absent output_format
generate_audio_validate_mp3_default(job_input) ==
    LET gt == PyGet(job_input, "text", PyStr(<<>>))
        vt == validate_text(gt.val)
        gs == PyGet(job_input, "speaker_names", DefaultSpeakers)
        gf == PyGet(job_input, "output_format", MP3)
        vf == validate_output_format(gf.val)
    IN IF ~gt.ok THEN Return(Failure("Generation failed: ", gt.msg))
       ELSE IF ~vt.ok THEN Return(Failure("Invalid input: ", vt.msg))
       ELSE IF ~vf.ok THEN Return(Failure("Generation failed: ", vf.msg))
       ELSE Proceed(vt.val, validate_speaker_names(gs.val), vf.val)

generate_audio_validate(job_input) ==
    LET gt == PyGet(job_input, "text", PyStr(<<>>))
        vt == validate_text(gt.val)
        gs == PyGet(job_input, "speaker_names", DefaultSpeakers)
        gf == PyGet(job_input, "output_format", WAV)
        vf == validate_output_format(gf.val)
    IN IF ~gt.ok THEN Return(Failure("Generation failed: ", gt.msg))
       ELSE IF ~vt.ok THEN Return(Failure("Invalid input: ", vt.msg))
       ELSE IF ~vf.ok THEN Return(Failure("Generation failed: ", vf.msg))
       ELSE Proceed(vt.val, validate_speaker_names(gs.val), vf.val)

\* handler without its try/except: what job.get raises reaches the caller
handler_entry_no_except(job) ==
    LET gi == PyGet(job, "input", EmptyDict)
        ti == TextIn(gi.val)
    IN IF ~gi.ok THEN Return(Raised(gi.exc))
       ELSE IF ~Truthy(gi.val) THEN Return(Usage("No input provided"))
       ELSE IF ~ti.ok THEN Return(Raised(ti.exc))
       ELSE IF ~ti.val THEN Return(Usage("Missing required 'text' parameter"))
       ELSE generate_audio_validate(gi.val)

\* handler without the check for the text field
handler_entry_no_text_check(job) ==
    LET gi == PyGet(job, "input", EmptyDict)
    IN IF ~gi.ok THEN Return(Failure("Handler failed: ", gi.msg))
       ELSE IF ~Truthy(gi.val) THEN Return(Usage("No input provided"))
       ELSE generate_audio_validate(gi.val)

(***************************************************************************)
(* handler up to the call of initialize_model.                             *)
(***************************************************************************)
handler_entry(job) ==
    LET gi == PyGet(job, "input", EmptyDict)
        ti == TextIn(gi.val)
    IN IF ~gi.ok THEN Return(Failure("Handler failed: ", gi.msg))
       ELSE IF ~Truthy(gi.val) THEN Return(Usage("No input provided"))
       ELSE IF ~ti.ok THEN Return(Failure("Handler failed: ", ti.msg))
       ELSE IF ~ti.val THEN Return(Usage("Missing required 'text' parameter"))
       ELSE generate_audio_validate(gi.val)

(***************************************************************************)
(* Job values the transport may deliver.                                   *)
(***************************************************************************)
Hi == Lit(<<"h", "i">>)
JobOf(input) == PyDict("id" :> Hi @@ "input" :> input)

JobValues ==
    { PyNone,                                              \* job is not a mapping
      PyDict("id" :> Hi),                                  \* input absent
      JobOf(PyNone),                                       \* input null
      JobOf(EmptyDict),                                    \* input empty
      JobOf(PyInt(5)),                                     \* input a number
      JobOf(TEXT),                                         \* input the string "text"
      JobOf(PyList(<<Hi>>)),                               \* input a list without "text"
      JobOf(PyDict("output_format" :> MP3)),               \* text missing
      JobOf(PyDict("text" :> PyStr(<<>>))),                \* text empty
      JobOf(PyDict("text" :> PyInt(5))),                   \* text a number
      JobOf(PyDict("text" :> PyStr(<<R("a", MaxTextLen + 1)>>))),
      JobOf(PyDict("text" :> Hi @@ "output_format" :> PyInt(5))),
      JobOf(PyDict("text" :> PyStr(<<R(" ", 1), R("a", 2), R(" ", 1)>>))) }

\* what a child leaves on a standard stream: nothing, or a traceback longer
\* than an excerpt
NoOutput == PyStr(<<>>)
Traceback == PyStr(<<R("T", 1), R("r", ExcerptLen)>>)

(***************************************************************************)
(* Payloads for a worker that serves one job at a time: the texts, speaker  *)
(* lists and formats the validators have to tell apart.                     *)
(***************************************************************************)
Dialogue ==
    Lit(<<
          "S", "p", "e", "a", "k", "e", "r", " ",
          "1", ":", " ", "H", "i", ".", " ", "S",
          "p", "e", "a", "k", "e", "r", " ", "2",
          ":", " ", "H", "e", "l", "l", "o", "." >>)

Sa == Lit(<<"a">>)
Sb == Lit(<<"b">>)
Sc == Lit(<<"c">>)
Sd == Lit(<<"d">>)
Se == Lit(<<"e">>)
Blank == PyStr(<<R(" ", 2)>>)
Padded == PyStr(<<R(" ", 1), R("a", 1), R("\t", 1)>>)

TextValues ==
    { PyNone, PyInt(0), PyInt(5), PyList(<<Hi>>), PyStr(<<>>),
      PyStr(<<R(" ", 3)>>),                                  \* whitespace only
      PyStr(<<R("\n", 1), R("\t", 1)>>),                     \* whitespace only
      Hi, Dialogue,
      PyStr(<<R(" ", 1), R("a", 2), R(" ", 1)>>),
      PyStr(<<R("a", MaxTextLen)>>),                         \* the longest text accepted
      PyStr(<<R("a", MaxTextLen + 1)>>),
      PyStr(<<R(" ", 1), R("a", MaxTextLen)>>),              \* too long before trimming only
      PyStr(<<R(" ", MaxTextLen + 1)>>) }

SpeakerValues ==
    { PyNone, PyInt(5), Sa, PyDict("a" :> Sb),
      PyList(<<>>),
      PyList(<<Sa>>),
      PyList(<<Sa, Sb>>),
      PyList(<<Sb, Sa>>),
      PyList(<<Blank, Sa>>),
      PyList(<<Blank, PyStr(<<>>)>>),
      PyList(<<Sa, Blank, Sb>>),
      PyList(<<Padded, PyInt(5), PyNone>>),
      PyList(<<Sd, Sc, Sb, Sa>>),
      PyList(<<Sa, Sb, Sc, Sd, Se>>),
      PyList(<<Blank, Sa, Sb, Sc, Sd>>),
      PyList(<<Sa, Sb, Sc, Blank, Sd, Se>>),
      PyList(<<Blank, Blank, Blank, Blank, Sa, Sb>>) }

FormatValues ==
    { PyNone, PyInt(0), PyInt(5), PyStr(<<>>), PyList(<<>>), PyList(<<WAV>>),
      WAV, MP3, FLAC,
      Lit(<<"W", "A", "V">>), Lit(<<"M", "p", "3">>), Lit(<<"F", "l", "A", "c">>),
      Lit(<<"o", "g", "g">>), Lit(<<" ", "m", "p", "3">>), Lit(<<"w", "a", "v", "e">>) }

SoloJobValues ==
    JobValues
    \cup {JobOf(PyDict("text" :> v)) : v \in TextValues}
    \cup {JobOf(PyDict("text" :> Hi @@ "speaker_names" :> v)) : v \in SpeakerValues}
    \cup {JobOf(PyDict("text" :> Hi @@ "output_format" :> v)) : v \in FormatValues}

Formats == {WAV, MP3, FLAC}
Locations == {"tree", "out"}

\* what the children of concurrently running jobs write
ChildFormats == {WAV, MP3}
ChildLocations == {"tree"}

TmpNames == 1..NumJobs
NoPath == 0
NoText == PyStr(<<>>)

\* the locals of one call of generate_audio; they exist while the call runs
NoLocals ==
    [text |-> NoText, speaker_names |-> PyList(<<>>), output_format |-> PyNone,
     txt_path |-> NoPath, audio_files |-> {}, latest_audio |-> NoFile]

(***************************************************************************)
(* State                                                                   *)
(***************************************************************************)
VARIABLES
    model_initialized,  \* module global (line 31)
    model_path,         \* module global (line 32): "none" or the path
    device,             \* module global (line 33): "none", "cuda" or "cpu"
    cuda_available,     \* torch.cuda.is_available() of this host
    fsModelPath,        \* whether MODEL_PATH exists on the file system
    txtFiles,           \* temporary text files on disk: name -> creating job
    files,              \* audio files on disk
    clock,              \* file-system time, stamps mtime
    pc,                 \* each job's position in handler / generate_audio
    loc,                \* each job's locals in generate_audio
    child,              \* each job's child process: none, running, exited, killed
    wrote,              \* whether each job's running child has written its file
    health,             \* the last report of health_check
    result              \* what handler returned for each job

vars == <<model_initialized, model_path, device, cuda_available, fsModelPath,
          txtFiles, files, clock, pc, loc, child, wrote, health, result>>

worker == <<model_initialized, model_path, device>>
disk == <<txtFiles, files, clock>>
proc == <<child, wrote>>
env == <<cuda_available, fsModelPath>>

Init ==
    /\ model_initialized = FALSE
    /\ model_path = "none"
    /\ device = "none"
    /\ cuda_available = TRUE     \* the endpoint is deployed on GPU hosts (deploy.py)
    /\ fsModelPath \in BOOLEAN
    /\ txtFiles = [n \in {} |-> 0]
    /\ files = {}
    /\ clock = 1
    /\ pc = [j \in Jobs |-> "idle"]
    /\ loc = [j \in Jobs |-> NoLocals]
    /\ child = [j \in Jobs |-> "none"]
    /\ wrote = [j \in Jobs |-> FALSE]
    /\ health = NoReport
    /\ result = [j \in Jobs |-> NoResult]

\* job j moves on to position p with locals l
Goto(j, p, l) ==
    /\ pc' = [pc EXCEPT ![j] = p]
    /\ loc' = [loc EXCEPT ![j] = l]
    /\ UNCHANGED result

\* handler returns r for job j; the locals go out of scope
Finish(j, r) ==
    /\ pc' = [pc EXCEPT ![j] = "done"]
    /\ loc' = [loc EXCEPT ![j] = NoLocals]
    /\ result' = [result EXCEPT ![j] = r]

\* generate_audio without its finally clause
CleanupSkipped(j) == UNCHANGED txtFiles

\* os.unlink(path) of a text file
UnlinkTxt(path) == [n \in DOMAIN txtFiles \ {path} |-> txtFiles[n]]

\* the finally clause of generate_audio (lines 246-251): os.unlink(txt_path)
Cleanup(j) == txtFiles' = UnlinkTxt(loc[j].txt_path)

(***************************************************************************)
(* handler (lines 262-289), generate_audio's validation (lines 119-132)    *)
(* and the fast path of initialize_model (lines 76-77).  Jobs are          *)
(* interchangeable, so they are received in the order of their numbers.    *)
(***************************************************************************)
\* initialize_model without its fast path: every job checks the model directory
ReceiveAlwaysInitializes(j, job) ==
    /\ pc[j] = "idle"
    /\ \A k \in Jobs : k < j => pc[k] # "idle"
    /\ LET e == handler_entry(job)
           l == [loc[j] EXCEPT !.text = e.text, !.speaker_names = e.speaker_names,
                               !.output_format = e.output_format]
       IN IF e.returns
          THEN Finish(j, e.result)
          ELSE Goto(j, "init_body", l)
    /\ UNCHANGED <<worker, env, disk, proc, health>>

Receive(j, job) ==
    /\ pc[j] = "idle"
    /\ \A k \in Jobs : k < j => pc[k] # "idle"
    /\ LET e == handler_entry(job)
           l == [loc[j] EXCEPT !.text = e.text, !.speaker_names = e.speaker_names,
                               !.output_format = e.output_format]
       IN IF e.returns
          THEN Finish(j, e.result)
          ELSE IF model_initialized
          THEN Goto(j, "start", l)
          ELSE Goto(j, "init_body", l)
    /\ UNCHANGED <<worker, env, disk, proc, health>>

\* generate_audio going on although initialize_model returned False
InitBodyIgnored(j, fault) ==
    /\ pc[j] = "init_body"
    /\ device' = IF cuda_available THEN "cuda" ELSE "cpu"
    /\ model_path' = "/app/models/VibeVoice-Large"
    /\ model_initialized' = (model_initialized \/ (fsModelPath /\ ~fault))
    /\ Goto(j, "start", loc[j])
    /\ UNCHANGED <<env, disk, proc, health>>

\* initialize_model refusing to try again once an attempt has been made
InitBodyPoisoned(j, fault) ==
    /\ pc[j] = "init_body"
    /\ device' = IF cuda_available THEN "cuda" ELSE "cpu"
    /\ model_path' = "/app/models/VibeVoice-Large"
    /\ IF fsModelPath /\ ~fault /\ device = "none"
       THEN /\ model_initialized' = TRUE
            /\ Goto(j, "start", loc[j])
       ELSE /\ UNCHANGED model_initialized
            /\ Finish(j, Failure("Model initialization failed", ""))
    /\ UNCHANGED <<env, disk, proc, health>>

\* initialize_model clearing the flag when an attempt fails
InitBodyResets(j, fault) ==
    /\ pc[j] = "init_body"
    /\ device' = IF cuda_available THEN "cuda" ELSE "cpu"
    /\ model_path' = "/app/models/VibeVoice-Large"
    /\ IF fsModelPath /\ ~fault
       THEN /\ model_initialized' = TRUE
            /\ Goto(j, "start", loc[j])
       ELSE /\ model_initialized' = FALSE
            /\ Finish(j, Failure("Model initialization failed", ""))
    /\ UNCHANGED <<env, disk, proc, health>>

(***************************************************************************)
(* initialize_model past the fast path (lines 79-115); fault: an exception *)
(* raised while the model directory is read                                *)
(***************************************************************************)
InitBody(j, fault) ==
    /\ pc[j] = "init_body"
    /\ device' = IF cuda_available THEN "cuda" ELSE "cpu"
    /\ model_path' = "/app/models/VibeVoice-Large"
    /\ IF fsModelPath /\ ~fault
       THEN /\ model_initialized' = TRUE
            /\ Goto(j, "start", loc[j])
       ELSE /\ UNCHANGED model_initialized
            /\ Finish(j, Failure("Model initialization failed", ""))
    /\ UNCHANGED <<env, disk, proc, health>>

(***************************************************************************)
(* generate_audio after initialize_model (lines 138-260)                   *)
(***************************************************************************)
demo_script == "/app/VibeVoice/demo/inference_from_file.py"
possible_scripts ==
    << "/app/VibeVoice/inference.py",
       "/app/VibeVoice/generate.py",
       "/app/VibeVoice/run_inference.py" >>
ScriptPaths == {demo_script} \cup {possible_scripts[i] : i \in 1..Len(possible_scripts)}

\* lines 148-163: the script to run, "" when none exists
SelectScript(existing) ==
    IF demo_script \in existing THEN demo_script
    ELSE IF \E i \in 1..Len(possible_scripts) : possible_scripts[i] \in existing
    THEN possible_scripts[CHOOSE i \in 1..Len(possible_scripts) :
                            /\ possible_scripts[i] \in existing
                            /\ \A k \in 1..(i - 1) : possible_scripts[k] \notin existing]
    ELSE ""

\* tempfile.NamedTemporaryFile never returns the name of an existing file; names
\* are interchangeable, so the model takes the first free one
FreshName == CHOOSE n \in TmpNames :
                /\ n \notin DOMAIN txtFiles
                /\ \A m \in TmpNames : m < n => m \in DOMAIN txtFiles

\* the text files after job j created the file called name
CreateTxt(j, name) ==
    [n \in DOMAIN txtFiles \cup {name} |-> IF n = name THEN j ELSE txtFiles[n]]

\* what os.makedirs(output_dir, exist_ok=True) can do: succeed, or raise an
\* OSError whose text names the cause
MkdirOk == ""
MkdirErrors == {"[Errno 13] Permission denied", "[Errno 28] No space left on device"}
MkdirOutcomes == {MkdirOk} \cup MkdirErrors

\* lines 139-183: create the text file; os.makedirs(output_dir), which is
\* outside the inner try; pick the script; start the child process
Start(j, mkdirError, existing) ==
    /\ pc[j] = "start"
    /\ IF mkdirError # MkdirOk
       THEN /\ txtFiles' = CreateTxt(j, FreshName)
            /\ Finish(j, Failure("Generation failed: ", mkdirError))
            /\ UNCHANGED child
       ELSE IF SelectScript(existing) = ""
       THEN /\ UNCHANGED txtFiles
            /\ Finish(j, Failure("No inference script found in VibeVoice directory", ""))
            /\ UNCHANGED child
       ELSE /\ txtFiles' = CreateTxt(j, FreshName)
            /\ child' = [child EXCEPT ![j] = "running"]
            /\ Goto(j, "running", [loc[j] EXCEPT !.txt_path = FreshName])
    /\ UNCHANGED <<worker, env, files, clock, wrote, health>>

\* the child writes its audio file somewhere: the output location is its own choice
ChildWrite(j, ext, dir) ==
    /\ child[j] = "running"
    /\ ~wrote[j]
    /\ files' = files \cup {[owner |-> j, ext |-> ext, loc |-> dir, mtime |-> clock]}
    /\ clock' = clock + 1
    /\ wrote' = [wrote EXCEPT ![j] = TRUE]
    /\ UNCHANGED <<worker, env, txtFiles, pc, loc, child, health, result>>

Tree(fs, ext) == {f \in fs : f.loc = "tree" /\ f.ext = ext}
OutDir(fs, ext) == {f \in fs : f.loc = "out" /\ f.ext = ext}

fallback_formats == <<WAV, MP3, FLAC>>

\* lines 193-196: the for loop leaves audio_files at the first non-empty glob,
\* or at the (empty) last one
RECURSIVE TryFormats(_, _)
TryFormats(fs, i) ==
    IF Tree(fs, fallback_formats[i]) # {} \/ i = Len(fallback_formats)
    THEN Tree(fs, fallback_formats[i])
    ELSE TryFormats(fs, i + 1)

\* the discovery looking into the output directory before the tree
FindAudioOutputDirFirst(fs, output_format) ==
    LET a0 == OutDir(fs, output_format)
        a1 == IF a0 = {} THEN Tree(fs, output_format) ELSE a0
    IN IF a1 = {} THEN TryFormats(fs, 1) ELSE a1

\* lines 189-200
FindAudio(fs, output_format) ==
    LET a1 == Tree(fs, output_format)
        a2 == IF a1 = {} THEN TryFormats(fs, 1) ELSE a1
    IN IF a2 = {} THEN OutDir(fs, output_format) ELSE a2

\* lines 177-200 and 232-244: subprocess.run returns with the child's exit status
\* and what it wrote to its standard output and standard error
ChildExit(j, returncode, stdout, stderr) ==
    /\ pc[j] = "running"
    /\ child' = [child EXCEPT ![j] = "exited"]
    /\ wrote' = [wrote EXCEPT ![j] = FALSE]
    /\ IF returncode = 0
       THEN LET found == FindAudio(files, loc[j].output_format)
            IN IF found = {}
               THEN /\ Cleanup(j)
                    /\ Finish(j, NoAudio(stdout, stderr))
               ELSE /\ Goto(j, "pick", [loc[j] EXCEPT !.audio_files = found])
                    /\ UNCHANGED txtFiles
       ELSE /\ Cleanup(j)
            /\ Finish(j, ProcessFailure(stdout, stderr))
    /\ UNCHANGED <<worker, env, files, clock, health>>

\* the deadline expires and the child is left running
ChildTimeoutAbandons(j) ==
    /\ pc[j] = "running"
    /\ UNCHANGED <<child, wrote>>
    /\ Cleanup(j)
    /\ Finish(j, Failure("Generation timeout (5 minutes exceeded)", ""))
    /\ UNCHANGED <<worker, env, files, clock, health>>

\* lines 177-183 and 255-256: the deadline expires, subprocess.run kills the
\* child and raises TimeoutExpired
ChildTimeout(j) ==
    /\ pc[j] = "running"
    /\ child' = [child EXCEPT ![j] = "killed"]
    /\ wrote' = [wrote EXCEPT ![j] = FALSE]
    /\ Cleanup(j)
    /\ Finish(j, Failure("Generation timeout (5 minutes exceeded)", ""))
    /\ UNCHANGED <<worker, env, files, clock, health>>

\* the candidate with the oldest modification time
Oldest(fs) == CHOOSE f \in fs : \A g \in fs : f.mtime <= g.mtime

Latest(fs) == CHOOSE f \in fs : \A g \in fs : g.mtime <= f.mtime

\* lines 204-207: max(audio_files, key=os.path.getmtime) stats every candidate
\* and fails when one has been deleted since the glob; then the file is read
Pick(j) ==
    /\ pc[j] = "pick"
    /\ IF loc[j].audio_files \subseteq files
       THEN /\ Goto(j, "unlink", [loc[j] EXCEPT !.latest_audio = Latest(loc[j].audio_files)])
            /\ UNCHANGED txtFiles
       ELSE /\ Cleanup(j)
            /\ Finish(j, Failure("Generation failed: ", "No such file or directory"))
    /\ UNCHANGED <<worker, env, files, clock, proc, health>>

\* the success returned without the file being deleted
UnlinkKeepsFile(j) ==
    /\ pc[j] = "unlink"
    /\ UNCHANGED files
    /\ Cleanup(j)
    /\ Finish(j, Success(loc[j].latest_audio, loc[j].output_format,
                         loc[j].speaker_names, PyLen(loc[j].text)))
    /\ UNCHANGED <<worker, env, clock, proc, health>>

\* lines 209-231: delete the file that was read and return it
Unlink(j) ==
    /\ pc[j] = "unlink"
    /\ files' = files \ {loc[j].latest_audio}
    /\ Cleanup(j)
    /\ Finish(j, Success(loc[j].latest_audio, loc[j].output_format,
                         loc[j].speaker_names, PyLen(loc[j].text)))
    /\ UNCHANGED <<worker, env, clock, proc, health>>

(***************************************************************************)
(* health_check (lines 296-320); gpuFault: a CUDA query raises             *)
(***************************************************************************)
\* a health_check that reports healthy whether or not the model is loaded
health_report_always_healthy(gpuFault) ==
    IF cuda_available /\ gpuFault
    THEN [status |-> "unhealthy", model_loaded |-> "absent", device |-> "absent",
          gpu_info |-> FALSE]
    ELSE [status |-> "healthy",
          model_loaded |-> model_initialized,
          device |-> IF device # "none" THEN device ELSE "null",
          gpu_info |-> cuda_available]

health_report(gpuFault) ==
    IF cuda_available /\ gpuFault
    THEN [status |-> "unhealthy", model_loaded |-> "absent", device |-> "absent",
          gpu_info |-> FALSE]
    ELSE [status |-> IF model_initialized THEN "healthy" ELSE "initializing",
          model_loaded |-> model_initialized,
          device |-> IF device # "none" THEN device ELSE "null",
          gpu_info |-> cuda_available]

\* health_check calling initialize_model before it reports
HealthCheckInitializes(gpuFault) ==
    /\ device' = IF cuda_available THEN "cuda" ELSE "cpu"
    /\ model_path' = "/app/models/VibeVoice-Large"
    /\ model_initialized' = (model_initialized \/ fsModelPath)
    /\ health' = [health_report(gpuFault) EXCEPT !.status =
                      IF @ = "unhealthy" THEN @
                      ELSE IF model_initialized' THEN "healthy" ELSE "initializing"]
    /\ UNCHANGED <<env, disk, pc, loc, proc, result>>

HealthCheck(gpuFault) ==
    /\ health' = health_report(gpuFault)
    /\ UNCHANGED <<worker, env, disk, pc, loc, proc, result>>

(***************************************************************************)
(* The environment: the model directory appears (a volume is mounted) or   *)
(* disappears.                                                             *)
(***************************************************************************)
Mount ==
    /\ ~fsModelPath
    /\ fsModelPath' = TRUE
    /\ UNCHANGED <<worker, cuda_available, disk, pc, loc, proc, health, result>>

Unmount ==
    /\ fsModelPath
    /\ fsModelPath' = FALSE
    /\ UNCHANGED <<worker, cuda_available, disk, pc, loc, proc, health, result>>

Next ==
    \/ \E j \in Jobs, job \in JobValues : Receive(j, job)
    \/ \E j \in Jobs, fault \in BOOLEAN : InitBody(j, fault)
    \/ \E j \in Jobs, mkdirError \in MkdirOutcomes, existing \in SUBSET ScriptPaths :
          Start(j, mkdirError, existing)
    \/ \E j \in Jobs, ext \in ChildFormats, dir \in ChildLocations : ChildWrite(j, ext, dir)
    \/ \E j \in Jobs, returncode \in {0, 1} :
          ChildExit(j, returncode, NoOutput, Traceback)
    \/ \E j \in Jobs : ChildTimeout(j)
    \/ \E j \in Jobs : Pick(j)
    \/ \E j \in Jobs : Unlink(j)
    \/ Mount
    \/ Unmount

Spec == Init /\ [][Next]_vars

\* the jobs together with a monitor that polls health_check
NextHealth ==
    \/ Next
    \/ \E gpuFault \in BOOLEAN : HealthCheck(gpuFault)

SpecHealth == Init /\ [][NextHealth]_vars

(***************************************************************************)
(* A worker that serves one job at a time (job 1), with every payload of    *)
(* SoloJobValues, every output of the child, and a tree and an output       *)
(* directory that may hold audio files left by earlier invocations.         *)
(***************************************************************************)
Solo == 1

Leftover(ext, dir) == [owner |-> 0, ext |-> ext, loc |-> dir, mtime |-> 0]
Leftovers ==
    { Leftover(WAV, "tree"), Leftover(MP3, "tree"), Leftover(FLAC, "tree"),
      Leftover(WAV, "out"), Leftover(MP3, "out") }

Streams ==
    { NoOutput, PyStr(<<R("E", 1)>>), PyStr(<<R("E", ExcerptLen)>>), Traceback }

InitSolo ==
    /\ model_initialized = FALSE
    /\ model_path = "none"
    /\ device = "none"
    /\ cuda_available = TRUE
    /\ fsModelPath = TRUE
    /\ txtFiles = [n \in {} |-> 0]
    /\ files \in SUBSET Leftovers
    /\ clock = 1
    /\ pc = [j \in Jobs |-> "idle"]
    /\ loc = [j \in Jobs |-> NoLocals]
    /\ child = [j \in Jobs |-> "none"]
    /\ wrote = [j \in Jobs |-> FALSE]
    /\ health = NoReport
    /\ result = [j \in Jobs |-> NoResult]

NextSolo ==
    \/ \E job \in SoloJobValues : Receive(Solo, job)
    \/ \E fault \in BOOLEAN : InitBody(Solo, fault)
    \/ \E mkdirError \in MkdirOutcomes, existing \in SUBSET ScriptPaths :
          Start(Solo, mkdirError, existing)
    \/ \E ext \in Formats, dir \in Locations : ChildWrite(Solo, ext, dir)
    \/ \E returncode \in {0, 1}, stdout \in Streams, stderr \in Streams :
          ChildExit(Solo, returncode, stdout, stderr)
    \/ ChildTimeout(Solo)
    \/ Pick(Solo)
    \/ Unlink(Solo)

SpecSolo == InitSolo /\ [][NextSolo]_vars

TypeOK ==
    /\ model_initialized \in BOOLEAN
    /\ device \in {"none", "cuda", "cpu"}
    /\ \A j \in Jobs : pc[j] \in {"idle", "init_body", "start", "running",
                                  "pick", "unlink", "done"}
    /\ \A j \in Jobs : child[j] \in {"none", "running", "exited", "killed"}

(***************************************************************************)
(* Properties                                                              *)
(***************************************************************************)
OwnsTxt(j) == \E n \in DOMAIN txtFiles : txtFiles[n] = j
InitFailed == Failure("Model initialization failed", "")
TimedOut == Failure("Generation timeout (5 minutes exceeded)", "")
ProcessFailed(r) == r.kind = "error" /\ r.error = "Generation failed: " /\ r.tail # PyNone
ArtifactMissing(r) == r.kind = "error" /\ r.error = "No audio file generated"
Generating == {"start", "running", "pick", "unlink"}

\* the job carries a text field
HasText(job) ==
    /\ job.t = "dict"
    /\ "input" \in DOMAIN job.d
    /\ job.d["input"].t = "dict"
    /\ "text" \in DOMAIN job.d["input"].d
TextOf(job) == job.d["input"].d["text"]

\* a text the validation has to reject: not a string, empty, or too long
BadText(v) == v.t # "str" \/ RunsLen(v.runs) = 0 \/ RunsLen(v.runs) > 10000

\* the payload is absent, null or empty, or it is a mapping without text
PayloadMissing(job) ==
    /\ job.t = "dict"
    /\ \/ "input" \notin DOMAIN job.d
       \/ job.d["input"].t = "none"
       \/ job.d["input"].t = "dict" /\ "text" \notin DOMAIN job.d["input"].d

BadTextJobs == {job \in JobValues : HasText(job) /\ BadText(TextOf(job))}
ValidJobs == {job \in JobValues : ~handler_entry(job).returns}
MissingPayloadJobs == {job \in JobValues : PayloadMissing(job)}

\* C1: when several jobs call initialize_model while the worker is not ready,
\* one initialization attempt is performed (never two jobs inside the body of
\* initialize_model at once) and no caller is told "not ready" while the worker
\* is in fact ready.
C1_OneInitialization ==
    [][ /\ Cardinality({j \in Jobs : pc'[j] = "init_body"}) <= 1
        /\ \A j \in Jobs :
              (pc[j] = "init_body" /\ pc'[j] = "done") => ~model_initialized' ]_vars

\* C2: once generate_audio has returned, the text file the job created no
\* longer exists, whatever the exit path.
C2_TextFileDeleted ==
    \A j \in Jobs : pc[j] = "done" => ~OwnsTxt(j)

\* C3: a job never reads, returns or deletes a text file or an audio file of
\* another job's invocation.
C3_NoSharedArtifacts ==
    \A j \in Jobs :
        /\ loc[j].txt_path \in DOMAIN txtFiles => txtFiles[loc[j].txt_path] = j
        /\ loc[j].latest_audio # NoFile => loc[j].latest_audio.owner = j
        /\ result[j].kind = "success" => result[j].audio.owner = j

\* C4: a job whose text is rejected returns an error starting "Invalid input: ",
\* a job whose initialize_model returns False returns an error, and in both
\* cases no child process was started and no file was created or deleted;
\* generation is under way only when the worker is ready.
C4_RejectedBeforeGeneration ==
    [][ \A j \in Jobs :
          /\ \A job \in BadTextJobs :
                (pc[j] = "idle" /\ pc'[j] # "idle" /\ Receive(j, job)) =>
                    /\ pc'[j] = "done"
                    /\ result'[j].kind = "error"
                    /\ result'[j].error = "Invalid input: "
                    /\ child'[j] = "none"
                    /\ UNCHANGED <<txtFiles, files>>
          /\ (pc[j] = "init_body" /\ pc'[j] = "done") =>
                    /\ result'[j] = InitFailed
                    /\ child'[j] = "none"
                    /\ UNCHANGED <<txtFiles, files>>
          /\ pc'[j] \in Generating => model_initialized'
          /\ pc'[j] \in {"idle", "init_body"} =>
                    child'[j] = "none" /\ \A n \in DOMAIN txtFiles' : txtFiles'[n] # j ]_vars

C4_Witness ==
    \E j1, j2 \in Jobs :
        /\ result[j1] = Failure("Invalid input: ", "Text must be a non-empty string")
        /\ result[j2] = InitFailed
        /\ child[j1] = "none" /\ child[j2] = "none"

\* C5: whatever the job value, handler returns a result, a success or an error
\* record, and no exception leaves it.
C5_AlwaysStructured ==
    \A j \in Jobs :
        /\ pc[j] = "done" => result[j].kind \in {"success", "error"}
        /\ pc[j] # "done" => result[j] = NoResult

C5_Witness ==
    \E j1, j2 \in Jobs :
        /\ result[j1] = Failure("Handler failed: ", "object has no attribute 'get'")
        /\ result[j2] = Failure("Generation failed: ", "[Errno 13] Permission denied")

C7_RetryAfterFailure ==
    [][ \A j \in Jobs :
          /\ (pc[j] = "init_body" /\ pc'[j] = "done") =>
                model_initialized' = model_initialized
          /\ \A job \in ValidJobs :
                (pc[j] = "idle" /\ pc'[j] # "idle" /\ ~model_initialized /\ Receive(j, job)) =>
                    pc'[j] = "init_body"
          /\ (pc[j] = "init_body" /\ fsModelPath /\ InitBody(j, FALSE)) =>
                model_initialized' /\ pc'[j] = "start" ]_vars

C7_Witness ==
    \E j1, j2 \in Jobs :
        /\ j1 < j2
        /\ result[j1] = InitFailed
        /\ result[j2].kind = "success"
        /\ model_initialized

\* C8: the worker starts not ready; it becomes ready only in a step of
\* initialize_model that found the model directory; once ready it stays ready,
\* so the transition happens at most once.
C8_ReadyOnceForever ==
    /\ ~model_initialized
    /\ [][ /\ model_initialized => model_initialized'
           /\ (~model_initialized /\ model_initialized') =>
                 \E j \in Jobs : pc[j] = "init_body" /\ pc'[j] = "start" /\ fsModelPath ]_vars

C8_Witness ==
    /\ model_initialized
    /\ ~fsModelPath
    /\ health.status = "healthy"
    /\ \A j \in Jobs : pc[j] = "done"
    /\ \E j \in Jobs : result[j] = InitFailed

\* C9: a job whose payload is absent, null or empty, or lacks the text field,
\* gets an error with the usage example at once; nothing else changes: not the
\* worker state, not the disk, no child process.
C9_UsageFastFail ==
    [][ \A j \in Jobs, job \in MissingPayloadJobs :
          (pc[j] = "idle" /\ pc'[j] # "idle" /\ Receive(j, job)) =>
              /\ pc'[j] = "done"
              /\ result'[j].kind = "error"
              /\ result'[j].example
              /\ UNCHANGED <<worker, env, disk, proc>> ]_vars

C9_Witness ==
    \E j1, j2 \in Jobs :
        /\ result[j1] = Usage("No input provided")
        /\ result[j2] = Usage("Missing required 'text' parameter")
        /\ ~model_initialized /\ device = "none"

\* C10: a job whose child process was started ends in exactly one of Completed,
\* TimedOut, ProcessFailed and ArtifactMissing, and the child is started once.
C10_OneTerminalOutcome ==
    \A j \in Jobs :
        (pc[j] = "done" /\ child[j] # "none") =>
            \/ result[j].kind = "success"
            \/ result[j] = TimedOut
            \/ ProcessFailed(result[j])
            \/ ArtifactMissing(result[j])

\* C11: the failure of a child that exited non-zero, or exited zero without an
\* artifact, carries excerpts of the child's standard output and standard error
\* of at most 500 characters each; after a non-zero exit the stderr excerpt is
\* not empty.
C11_BoundedExcerpts ==
    \A j \in Jobs :
        /\ ProcessFailed(result[j]) =>
              /\ PyLen(result[j].stdout) <= 500
              /\ PyLen(result[j].tail) <= 500
              /\ PyLen(result[j].tail) > 0
        /\ ArtifactMissing(result[j]) =>
              /\ PyLen(result[j].stdout) <= 500
              /\ PyLen(result[j].stderr) <= 500

\* the job whose payload has the text v and nothing else
TextJob(v) == JobOf(PyDict("text" :> v))
InvalidInput(r) == r.kind = "error" /\ r.error = "Invalid input: "
IsBlank(v) == v.t = "str" /\ PyLen(Strip(v)) = 0

\* C12: validate_text rejects every text longer than 10,000 characters; it
\* accepts every other string whose length after trimming is between 1 and
\* 10,000 and hands on the trimmed value; it rejects every empty string, every
\* string of whitespace only and every value that is not a string.
C12_ValidateText ==
    [][ \A v \in TextValues :
          (pc[Solo] = "idle" /\ pc'[Solo] # "idle" /\ Receive(Solo, TextJob(v))) =>
              /\ (v.t = "str" /\ PyLen(v) > 10000) =>
                    pc'[Solo] = "done" /\ InvalidInput(result'[Solo])
              /\ (v.t = "str" /\ PyLen(v) <= 10000 /\ PyLen(Strip(v)) >= 1) =>
                    pc'[Solo] # "done" /\ loc'[Solo].text = Strip(v)
              /\ (v.t # "str" \/ IsBlank(v)) =>
                    pc'[Solo] = "done" /\ InvalidInput(result'[Solo]) ]_vars

\* the job whose payload has the text "hi" and the speaker names v
SpeakerJob(v) == JobOf(PyDict("text" :> Hi @@ "speaker_names" :> v))

\* the first four entries of a list, as trimmed strings
FirstFour(v) ==
    [i \in 1..(IF Len(v.items) < 4 THEN Len(v.items) ELSE 4) |-> Strip(ToStr(v.items[i]))]

\* the non-empty ones among them, in their order
Kept(v) == SelectSeq(FirstFour(v), LAMBDA n : PyLen(n) > 0)

\* C13: for every speaker_names value that is not a list, or that leaves fewer
\* than 2 non-empty entries once truncated to 4, stringified, trimmed and
\* cleared of empty entries, validate_speaker_names gives ["Alice", "Bob"]; the
\* list handed to the child process has between 2 and 4 entries, none empty.
C13_SpeakerDefaults ==
    [][ /\ \A v \in SpeakerValues :
              (pc[Solo] = "idle" /\ pc'[Solo] # "idle" /\ Receive(Solo, SpeakerJob(v))) =>
                  ((v.t # "list" \/ Len(Kept(v)) < 2) =>
                      loc'[Solo].speaker_names = DefaultSpeakers)
        /\ pc'[Solo] \in Generating =>
              /\ Len(loc'[Solo].speaker_names.items) \in 2..4
              /\ \A i \in 1..Len(loc'[Solo].speaker_names.items) :
                    PyLen(loc'[Solo].speaker_names.items[i]) > 0 ]_vars

\* every entry of a list that is non-empty once stringified and trimmed
AllValid(v) ==
    SelectSeq([i \in 1..Len(v.items) |-> Strip(ToStr(v.items[i]))], LAMBDA n : PyLen(n) > 0)

FormatJob(v) == JobOf(PyDict("text" :> Hi @@ "output_format" :> v))

\* the format a value stands for: its lower-case form when that is a supported
\* format, wav otherwise
Matched(v) == IF v.t = "str" /\ Lower(v) \in Formats THEN Lower(v) ELSE WAV

\* C15: for every output_format value (absent, null, not a string, any string)
\* the job passes validation with a format in {wav, mp3, flac}: the
\* case-insensitive match if there is one, wav otherwise; the value never makes
\* the job fail.
C15_FormatNeverRejects ==
    [][ /\ \A v \in FormatValues :
              (pc[Solo] = "idle" /\ pc'[Solo] # "idle" /\ Receive(Solo, FormatJob(v))) =>
                  /\ pc'[Solo] # "done"
                  /\ loc'[Solo].output_format = Matched(v)
        /\ (pc[Solo] = "idle" /\ pc'[Solo] # "idle" /\ Receive(Solo, TextJob(Hi))) =>
                  /\ pc'[Solo] # "done"
                  /\ loc'[Solo].output_format = WAV ]_vars

\* C16: a call of health_check changes nothing but the report it returns: the
\* worker state (ready, device, backend location) is as before, no job moves
\* (no initialization is started or awaited), disk and child processes are
\* untouched; it can be called in every state, whatever the jobs are doing.
C16_HealthReadsOnly ==
    [][ /\ \A gpuFault \in BOOLEAN :
              HealthCheck(gpuFault) => UNCHANGED <<worker, env, disk, pc, loc, proc, result>>
        /\ health' # health => UNCHANGED <<worker, env, disk, pc, loc, proc, result>>
        /\ \A gpuFault \in BOOLEAN : ENABLED HealthCheck(gpuFault) ]_vars

\* a report made after a failed initialization, while another job is inside
\* initialize_model and the worker is still not ready
C16_Witness ==
    /\ health.status = "initializing"
    /\ health.device = "cuda"
    /\ ~model_initialized
    /\ \E j \in Jobs : pc[j] = "init_body"
    /\ \E j \in Jobs : result[j] = InitFailed

DialogueScenario(n) ==
    /\ (pc[Solo] = "idle" /\ pc'[Solo] # "idle" /\ Receive(Solo, TextJob(Dialogue))) =>
          /\ pc'[Solo] # "done"
          /\ loc'[Solo].text = Dialogue
          /\ loc'[Solo].speaker_names = DefaultSpeakers
          /\ loc'[Solo].output_format = WAV
    /\ (pc[Solo] = "unlink" /\ pc'[Solo] = "done" /\ loc[Solo].text = Dialogue
           /\ loc[Solo].latest_audio.ext = WAV) =>
          /\ result'[Solo].kind = "success"
          /\ result'[Solo].audio = loc[Solo].latest_audio
          /\ result'[Solo].format = WAV
          /\ result'[Solo].speakers = DefaultSpeakers
          /\ result'[Solo].text_length = n

\* C18 as stated: the dialogue scenario ends with text_length 31.
C18_DialogueLength31 == [][DialogueScenario(31)]_vars

\* C18 amended: the dialogue scenario ends with text_length 32, the number of
\* characters of the validated text.
C18_DialogueLength32 == [][DialogueScenario(32)]_vars

C18_Witness ==
    /\ result[Solo].kind = "success"
    /\ result[Solo].audio.ext = WAV
    /\ result[Solo].audio.owner = Solo
    /\ result[Solo].format = WAV
    /\ result[Solo].speakers = DefaultSpeakers
    /\ result[Solo].text_length = PyLen(Dialogue)

\* the result of a fault caught by `except Exception` in generate_audio or in
\* handler
InternalError(r) ==
    /\ r.kind = "error"
    /\ r.error \in {"Generation failed: ", "Handler failed: "}
    /\ r.tail = PyNone

\* C19: the message of an unanticipated fault is opaque: two jobs whose faults
\* were caught by the same except clause get the same result, whatever the
\* texts of their exceptions.
C19_OpaqueInternalError ==
    \A j1, j2 \in Jobs :
        (/\ InternalError(result[j1])
         /\ InternalError(result[j2])
         /\ result[j1].error = result[j2].error) => result[j1] = result[j2]

\* the places of the search, in its order: the tree for the requested format,
\* the tree for wav, mp3 and flac, the output directory for the requested format
SearchOrder(req) ==
    << <<"tree", req>>, <<"tree", WAV>>, <<"tree", MP3>>, <<"tree", FLAC>>, <<"out", req>> >>

Candidates(fs, place) == {f \in fs : f.loc = place[1] /\ f.ext = place[2]}

\* the files of the first place that has any, {} when every place is empty
FirstFound(fs, req) ==
    LET order == SearchOrder(req)
        hits == {i \in 1..Len(order) : Candidates(fs, order[i]) # {}}
    IN IF hits = {} THEN {}
       ELSE Candidates(fs, order[CHOOSE i \in hits : \A k \in hits : i <= k])

\* C20: after a zero exit the candidates are the files of the first non-empty
\* place in this order: the tree for the requested format; the tree for wav,
\* for mp3, for flac; the output directory (for the requested format).  A later
\* place counts only when every earlier one is empty, and "No audio file
\* generated" is returned exactly when all of them are empty.
C20_SearchOrder ==
    [][ \A stdout \in Streams, stderr \in Streams :
          (pc[Solo] = "running" /\ ChildExit(Solo, 0, stdout, stderr)) =>
              LET expected == FirstFound(files, loc[Solo].output_format)
              IN /\ expected # {} =>
                       pc'[Solo] = "pick" /\ loc'[Solo].audio_files = expected
                 /\ expected = {} =>
                       pc'[Solo] = "done" /\ ArtifactMissing(result'[Solo]) ]_vars

\* the search got as far as the output directory
C20_Witness ==
    /\ pc[Solo] = "pick"
    /\ loc[Solo].output_format = MP3
    /\ \A f \in files : f.loc # "tree"
    /\ \E f \in loc[Solo].audio_files : f.loc = "out" /\ f.owner = Solo
    /\ Cardinality(loc[Solo].audio_files) = 2
    /\ Leftover(WAV, "out") \in files

\* C21: the file a job reads is one of the candidates of its search, no
\* candidate has a later modification time than it, and it is the file the
\* success returns.
C21_MostRecentCandidate ==
    [][ /\ (pc[Solo] = "pick" /\ pc'[Solo] = "unlink") =>
              /\ loc'[Solo].latest_audio \in loc[Solo].audio_files
              /\ \A g \in loc[Solo].audio_files :
                    g.mtime <= loc'[Solo].latest_audio.mtime
        /\ (pc[Solo] = "unlink" /\ pc'[Solo] = "done") =>
              /\ result'[Solo].kind = "success"
              /\ result'[Solo].audio = loc[Solo].latest_audio ]_vars

\* two candidates in the selected step, an older file and the one the child
\* wrote; the newer one was returned
C21_Witness ==
    /\ result[Solo].kind = "success"
    /\ result[Solo].audio.owner = Solo
    /\ result[Solo].audio.mtime > 0
    /\ Leftover(result[Solo].audio.ext, result[Solo].audio.loc) \in files

C23_TimeoutKillsChild ==
    [][ \A j \in Jobs :
          /\ result'[j] = TimedOut => child'[j] = "killed"
          /\ result[j] = TimedOut =>
                {f \in files' : f.owner = j} \subseteq {f \in files : f.owner = j} ]_vars

\* a child that had written its file was killed at the deadline
C23_Witness ==
    \E j \in Jobs :
        /\ result[j] = TimedOut
        /\ child[j] = "killed"
        /\ \E f \in files : f.owner = j

\* C24: a valid job that arrives while the worker is ready passes
\* initialize_model at once: it does not enter the body that looks at the
\* device and the model directory, the worker state stays as it is, and this
\* is so whether or not the model directory still exists.
C24_ReadyFastPath ==
    [][ \A j \in Jobs, job \in ValidJobs :
          (pc[j] = "idle" /\ pc'[j] # "idle" /\ model_initialized /\ Receive(j, job)) =>
              /\ pc'[j] = "start"
              /\ UNCHANGED <<worker, env>> ]_vars

\* the worker is ready, the model directory is gone, and both jobs got through
C24_Witness ==
    /\ model_initialized
    /\ ~fsModelPath
    /\ \E j \in Jobs : pc[j] = "start"
    /\ \E j \in Jobs : pc[j] = "unlink"

\* C25: in every success the format reported is the extension of the file
\* whose bytes are returned, also when the file was found by the search of the
\* other formats.
C25_FormatOfArtifact ==
    \A j \in Jobs :
        result[j].kind = "success" => result[j].format = result[j].audio.ext

\* C26: a success returns a file that the job's own child wrote during this
\* invocation, never a file that was on disk before; and a child that exits
\* zero having written nothing gives "No audio file generated".
C26_OwnArtifactOnly ==
    [][ /\ (pc[Solo] = "unlink" /\ pc'[Solo] = "done") =>
              /\ result'[Solo].audio.owner = Solo
              /\ result'[Solo].audio \notin Leftovers
        /\ \A stdout \in Streams, stderr \in Streams :
              (pc[Solo] = "running" /\ ~wrote[Solo]
                 /\ ChildExit(Solo, 0, stdout, stderr)) =>
                  pc'[Solo] = "done" /\ ArtifactMissing(result'[Solo]) ]_vars

\* C27: while the worker is not ready, also after a failed attempt of
\* initialize_model, no device and no model path are recorded, and a report of
\* health_check made in that time has device null.
C27_RecordedOnSuccessOnly ==
    ~model_initialized =>
        /\ device = "none"
        /\ model_path = "none"
        /\ health.status = "initializing" => health.device = "null"

====
